---- MODULE Spec2Model ----
(***************************************************************************)
(* New-post detection and state reconciliation of the Helm blog bot.       *)
(*                                                                         *)
(*   bot.py        link-set variant: a JSON state file holds the set of    *)
(*                 links already seen; check_for_new_posts is one cycle.   *)
(*   check_once.py last-date variant: the state is the most recent         *)
(*                 "STATE:{...}" message found in the Telegram updates;    *)
(*                 main is one cycle over BLOG_SOURCES.                    *)
(*                                                                         *)
(* Strings are modelled as sequences of tokens (a link is a sequence of    *)
(* characters, a date string a sequence of words, numbers and separators). *)
(* An ISO date "YYYY-MM-DD" is the triple <<Y, M, D>>; the string order of *)
(* two ISO dates is the lexicographic order of the triples.  This holds    *)
(* for the years from 1000 on, which strftime writes with four digits; the *)
(* listings of the model show no earlier year, and the call of             *)
(* parse_blog_date models the digits written for an earlier one.           *)
(***************************************************************************)
EXTENDS Integers, Sequences, FiniteSets, TLC

VARIABLES
    script,         \* what runs: "bot.py", "bot.py x2" (two processes of bot.py, one
                    \* cycle each, on one state file), "check_once.py",
                    \* "test_dedup.py" or a single call "parse_blog_date"
    \* ---- bot.py ----
    state_file,     \* content of STATE_FILE on disk
    pc,             \* position inside check_for_new_posts
    state,          \* local `state` of check_for_new_posts (the loaded dict)
    seen_posts,     \* local `seen_posts`
    posts,          \* local `posts` (the fetch result)
    new_posts,      \* local `new_posts`
    sends,          \* posts handed to send_telegram_message in this cycle, in order
    failed,         \* whether a send of this cycle returned False
    result,         \* how the last call of check_for_new_posts ended
    prev_posts,     \* fetch result of the cycle just before when that cycle saved, else <<>>
    attempts,       \* how often each link was handed to send_telegram_message (2: twice or more)
    save_failed,    \* whether a save_state of this run has raised
    who,            \* the process of bot.py whose locals the variables above hold
    other,          \* the locals of the other process of "bot.py x2"
    events,         \* "bot.py x2": the loads, opens and dumps so far, in order
    \* ---- check_once.py ----
    tg_state,       \* the most recent STATE message held by Telegram
    opc,            \* position inside main
    last_seen_dates,\* local `last_seen_dates`
    src_i,          \* index of the next source of the loop over BLOG_SOURCES
    fetched,        \* fetch result of each source in this cycle
    all_new_posts,  \* local `all_new_posts`
    updated_dates,  \* local `updated_dates`
    osends,         \* posts handed to send_telegram_message in this cycle, in order
    ofailed,        \* whether a send of this cycle returned False
    \* ---- tests/test_dedup.py ----
    raw_links,      \* the URLs the posts of the test are built from, newest first
    raw_last_seen,  \* the URL last_seen is built from
    tpc,            \* position inside the test
    t_posts,        \* local `posts`
    last_seen,      \* local `last_seen`
    t_new_posts,    \* local `new_posts`
    \* ---- a call of parse_blog_date ----
    date_case,      \* how the argument is written (format, day, month, year, padding)
    date_str,       \* the argument
    dpc,            \* "start" before the call, "returned" after it
    date_ret        \* the value returned: the date, and the digits its year is written with

botVars  == <<state_file, pc, state, seen_posts, posts, new_posts, sends, failed,
              result, prev_posts, attempts, save_failed, who, other, events>>
onceVars == <<tg_state, opc, last_seen_dates, src_i, fetched, all_new_posts,
              updated_dates, osends, ofailed>>
testVars == <<raw_links, raw_last_seen, tpc, t_posts, last_seen, t_new_posts>>
dateVars == <<date_case, date_str, dpc, date_ret>>
vars     == <<script, botVars, onceVars, testVars, dateVars>>

\* Longest fetch result of bot.py in the model.
MaxPosts == 2

Range(s) == {s[i] : i \in 1..Len(s)}

Reverse(s) == [i \in 1..Len(s) |-> s[Len(s) + 1 - i]]

SeqsUpTo(S, n) == UNION {[1..k -> S] : k \in 0..n}

\* The last character cut off whatever it is.
normalize_url_chop(raw) == IF Len(raw) > 0 THEN SubSeq(raw, 1, Len(raw) - 1) ELSE raw

(***************************************************************************)
(* URL normalizer: strips one trailing "/" if there is one.                *)
(***************************************************************************)
normalize_url(raw) ==
    IF Len(raw) > 0 /\ raw[Len(raw)] = "/" THEN SubSeq(raw, 1, Len(raw) - 1) ELSE raw

(***************************************************************************)
(*                               bot.py                                    *)
(***************************************************************************)

\* Links the blog listing can show: "a", "a/" and "b".
Links == {<<"a">>, <<"a", "/">>, <<"b">>}

Post(l) == [link |-> l]

FetchResults == SeqsUpTo({Post(l) : l \in Links}, MaxPosts)

\* STATE_FILE: absent, not valid JSON, valid JSON that is no object,
\* or the object {"seen_posts": [...]}.
FileMissing   == [kind |-> "missing", seen_posts |-> {}]
FileInvalid   == [kind |-> "invalid", seen_posts |-> {}]
FileNonObject == [kind |-> "nonobject", seen_posts |-> {}]
FileObject(s) == [kind |-> "object", seen_posts |-> s]

\* Characters json.dump writes around a link of the list (quotes, comma, space).
ItemOverhead == 4

\* load_state: the dict read, or the exception raised.
load_state(file) ==
    CASE file.kind = "object"    -> [raised |-> "none", seen_posts |-> file.seen_posts]
      [] file.kind = "missing"   -> [raised |-> "none", seen_posts |-> {}]
      [] file.kind = "invalid"   -> [raised |-> "JSONDecodeError", seen_posts |-> {}]
      [] file.kind = "nonobject" -> [raised |-> "AttributeError", seen_posts |-> {}]

\* A post is new when its link is not in seen_posts; its link is then added.
IsNewLink(link, seen) == link \notin seen

\* A new link left out of seen_posts.
AddSeenNot(seen, link) == seen

\* seen_posts.add(post['link'])
AddSeen(seen, link) == seen \cup {link}

\* The loop over posts: new_posts and seen_posts after it.
RECURSIVE ScanPosts(_, _, _)
ScanPosts(ps, seen, acc) ==
    IF ps = <<>> THEN [new_posts |-> acc, seen_posts |-> seen]
    ELSE IF IsNewLink(Head(ps).link, seen)
         THEN ScanPosts(Tail(ps), AddSeen(seen, Head(ps).link), Append(acc, Head(ps)))
         ELSE ScanPosts(Tail(ps), seen, acc)

\* The new posts sent in fetch order.
SendOrderForward(np) == np

\* The order in which the new posts are sent.
SendOrder(np) == Reverse(np)

NoState == [raised |-> "none", seen_posts |-> {}]

\* What a process of "bot.py x2" fetches: nothing or one post.
RaceFetchResults == {<<>>} \cup {<<Post(l)>> : l \in Links}

\* The events of "bot.py x2" with one more of the running process.
Logged(op) == IF script = "bot.py x2" THEN Append(events, <<who, op>>) ELSE events

\* check_for_new_posts up to the end of the loop over posts.
CheckStart ==
    /\ script \in {"bot.py", "bot.py x2"}
    /\ script = "bot.py x2" => result = "none"
    /\ pc = "idle"
    /\ LET st == load_state(state_file) IN
       IF st.raised # "none"
       THEN /\ result' = "raised"
            /\ state' = st
            /\ prev_posts' = <<>>
            /\ UNCHANGED <<pc, seen_posts, posts, new_posts, sends, failed>>
       ELSE \E fr \in (IF script = "bot.py" THEN FetchResults ELSE RaceFetchResults) :
            /\ state' = st
            /\ posts' = fr
            /\ sends' = <<>>
            /\ failed' = FALSE
            /\ IF fr = <<>>
               THEN /\ result' = "no_posts"
                    /\ seen_posts' = st.seen_posts
                    /\ new_posts' = <<>>
                    /\ prev_posts' = <<>>
                    /\ pc' = "idle"
               ELSE LET sc == ScanPosts(fr, st.seen_posts, <<>>) IN
                    /\ result' = "running"
                    /\ seen_posts' = sc.seen_posts
                    /\ new_posts' = sc.new_posts
                    /\ prev_posts' = prev_posts
                    /\ pc' = IF sc.new_posts = <<>> THEN "save" ELSE "send"
    /\ events' = Logged("load")
    /\ UNCHANGED <<state_file, attempts, save_failed, who, other>>
    /\ UNCHANGED <<script, onceVars, testVars, dateVars>>

\* The send loop left at the first failed send.
AfterSendAbort(ok, last) == IF last \/ ~ok THEN "save" ELSE "send"

\* Where the send loop goes after send_telegram_message returned ok: a failed
\* send is logged and the loop goes on.
AfterSend(ok, last) == IF last THEN "save" ELSE "send"

\* One more attempt to send the post of a link.
Attempted(att, link) == [att EXCEPT ![link] = IF @ = 0 THEN 1 ELSE 2]

\* One iteration of the send loop.
SendNotification ==
    /\ pc = "send"
    /\ \E ok \in BOOLEAN :
         /\ sends' = Append(sends, SendOrder(new_posts)[Len(sends) + 1])
         /\ attempts' = Attempted(attempts, SendOrder(new_posts)[Len(sends) + 1].link)
         /\ pc' = AfterSend(ok, Len(sends) + 1 = Len(new_posts))
         /\ failed' = (failed \/ ~ok)
    /\ UNCHANGED <<state_file, state, seen_posts, posts, new_posts, result, prev_posts,
                   save_failed, who, other, events>>
    /\ UNCHANGED <<script, onceVars, testVars, dateVars>>

\* The loaded set written back without the links of this cycle.
SavedStateStale(st, seen) == FileObject(st.seen_posts)

\* Only the links first seen in this cycle written back.
SavedStateNewOnly(st, seen) == FileObject(seen \ st.seen_posts)

\* The file content json.dump writes: state with seen_posts set to the local set.
SavedState(st, seen) == FileObject(seen)

\* The length of the text json.dump writes for a seen set, less the part that
\* is the same for every set.
RECURSIVE FileSize(_)
FileSize(seen) ==
    IF seen = {} THEN 0
    ELSE LET l == CHOOSE x \in seen : TRUE IN Len(l) + ItemOverhead + FileSize(seen \ {l})

\* The file after a process that opened it writes its text from offset 0: the
\* text alone, unless a longer text was written since this process truncated
\* the file; then that text's tail stays behind and the file is no JSON.
Overwritten(file, st, seen) ==
    IF file.kind = "object" /\ FileSize(file.seen_posts) > FileSize(seen)
    THEN FileInvalid
    ELSE SavedState(st, seen)

\* save_state, first half: open(STATE_FILE, 'w') truncates the file, or fails
\* and leaves the file as it was; the exception leaves check_for_new_posts.
OpenStateFile ==
    /\ pc = "save"
    /\ \E opened \in BOOLEAN :
         IF opened
         THEN /\ state_file' = FileInvalid
              /\ pc' = "dump"
              /\ UNCHANGED <<result, prev_posts, save_failed>>
         ELSE /\ pc' = "idle"
              /\ result' = "raised"
              /\ prev_posts' = <<>>
              /\ save_failed' = TRUE
              /\ UNCHANGED state_file
    /\ events' = Logged("open")
    /\ UNCHANGED <<state, seen_posts, posts, new_posts, sends, failed, attempts, who, other>>
    /\ UNCHANGED <<script, onceVars, testVars, dateVars>>

\* save_state, second half: json.dump and the close of the file write the
\* text, or fail and leave the file truncated.
DumpState ==
    /\ pc = "dump"
    /\ \E written \in BOOLEAN :
         /\ state_file' = IF written THEN Overwritten(state_file, state, seen_posts)
                          ELSE FileInvalid
         /\ result' = IF written THEN "returned" ELSE "raised"
         /\ prev_posts' = IF written THEN posts ELSE <<>>
         /\ save_failed' = (save_failed \/ ~written)
    /\ pc' = "idle"
    /\ events' = Logged("dump")
    /\ UNCHANGED <<state, seen_posts, posts, new_posts, sends, failed, attempts, who, other>>
    /\ UNCHANGED <<script, onceVars, testVars, dateVars>>

\* The locals of the running process of bot.py.
Locals == [pc |-> pc, state |-> state, seen_posts |-> seen_posts, posts |-> posts,
           new_posts |-> new_posts, sends |-> sends, failed |-> failed, result |-> result]

\* "bot.py x2": the operating system runs the other process, which has not
\* yet left check_for_new_posts.
Switch ==
    /\ script = "bot.py x2"
    /\ other.result \in {"none", "running"}
    /\ other' = Locals
    /\ who' = 3 - who
    /\ pc' = other.pc
    /\ state' = other.state
    /\ seen_posts' = other.seen_posts
    /\ posts' = other.posts
    /\ new_posts' = other.new_posts
    /\ sends' = other.sends
    /\ failed' = other.failed
    /\ result' = other.result
    /\ UNCHANGED <<state_file, prev_posts, attempts, save_failed, events>>
    /\ UNCHANGED <<script, onceVars, testVars, dateVars>>

\* What the two processes of "bot.py x2" find in place of STATE_FILE.
RaceStartFiles == {FileMissing, FileObject({<<"b">>})}

\* What a deployment of bot.py can find in place of STATE_FILE at its start.
StartFiles == {FileMissing, FileInvalid, FileNonObject}

InitBot ==
    /\ state_file \in CASE script = "bot.py" -> StartFiles
                        [] script = "bot.py x2" -> RaceStartFiles
                        [] OTHER -> {FileMissing}
    /\ pc = "idle"
    /\ state = NoState
    /\ seen_posts = {}
    /\ posts = <<>>
    /\ new_posts = <<>>
    /\ sends = <<>>
    /\ failed = FALSE
    /\ result = "none"
    /\ prev_posts = <<>>
    /\ attempts = [l \in Links |-> 0]
    /\ save_failed = FALSE
    /\ who = 1
    /\ other = Locals
    /\ events = <<>>


(***************************************************************************)
(*                             check_once.py                               *)
(***************************************************************************)

\* The sources the loop of main goes over, in declaration order.  The list is
\* configuration; a source whose fetch is always empty acts as no source.
BLOG_SOURCES == <<"Helm", "Other">>

SourceNames == Range(BLOG_SOURCES)

\* An absent value (None).
None == <<>>

\* ---- date strings ----
\* A date string is a sequence of tokens: a word, a run of digits, ",", "-"
\* or " " (a run of whitespace).  "" is the empty sequence.
LongMonths  == [t \in {"May", "November", "December"} |->
                   CASE t = "May" -> 5 [] t = "November" -> 11 [] t = "December" -> 12]
ShortMonths == [t \in {"May", "Nov", "Dec"} |->
                   CASE t = "May" -> 5 [] t = "Nov" -> 11 [] t = "Dec" -> 12]
\* The runs of digits of the model, with their values.
DigitRuns   == [t \in {"5", "05", "11", "12", "18", "20", "31", "0999", "2024", "2025"} |->
                   CASE t = "5" -> 5 [] t = "05" -> 5 [] t = "11" -> 11 [] t = "12" -> 12
                     [] t = "18" -> 18 [] t = "20" -> 20 [] t = "31" -> 31
                     [] t = "0999" -> 999 [] t = "2024" -> 2024 [] t = "2025" -> 2025]
FourDigits  == {"0999", "2024", "2025"}

\* str.strip(): leading and trailing whitespace removed.
RECURSIVE lstrip(_)
lstrip(s) == IF s # <<>> /\ Head(s) = " " THEN lstrip(Tail(s)) ELSE s
strip(s) == Reverse(lstrip(Reverse(lstrip(s))))

\* The formats of parse_blog_date, in the order they are tried.
DateFormats == <<
    <<"%B", " ", "%d", ",", " ", "%Y">>,
    <<"%b", " ", "%d", ",", " ", "%Y">>,
    <<"%Y", "-", "%m", "-", "%d">>,
    <<"%d", " ", "%B", " ", "%Y">>,
    <<"%d", " ", "%b", " ", "%Y">> >>

\* One token against one directive (or literal) of a format.
TokenMatches(dir, tok) ==
    CASE dir = "%B" -> tok \in DOMAIN LongMonths
      [] dir = "%b" -> tok \in DOMAIN ShortMonths
      [] dir = "%d" -> tok \in DOMAIN DigitRuns \ FourDigits
                       /\ DigitRuns[tok] >= 1 /\ DigitRuns[tok] <= 31
      [] dir = "%m" -> tok \in DOMAIN DigitRuns \ FourDigits
                       /\ DigitRuns[tok] >= 1 /\ DigitRuns[tok] <= 12
      [] dir = "%Y" -> tok \in FourDigits
      [] OTHER -> tok = dir

TokenValue(dir, tok) ==
    CASE dir = "%B" -> LongMonths[tok]
      [] dir = "%b" -> ShortMonths[tok]
      [] OTHER -> DigitRuns[tok]

DaysInMonth(y, m) ==
    IF m \in {4, 6, 9, 11} THEN 30
    ELSE IF m = 2
         THEN (IF (y % 4 = 0 /\ y % 100 # 0) \/ y % 400 = 0 THEN 29 ELSE 28)
         ELSE 31

\* datetime.strptime(s, fmt).strftime('%Y-%m-%d'): the ISO date, or None for
\* the ValueError of a string that does not match or names no calendar day.
strptime(s, fmt) ==
    IF Len(s) # Len(fmt) \/ \E i \in 1..Len(fmt) : ~TokenMatches(fmt[i], s[i])
    THEN None
    ELSE LET val(dirs) == LET i == CHOOSE i \in 1..Len(fmt) : fmt[i] \in dirs
                          IN  TokenValue(fmt[i], s[i])
             y == val({"%Y"})
             m == val({"%B", "%b", "%m"})
             d == val({"%d"})
         IN  IF d <= DaysInMonth(y, m) THEN <<y, m, d>> ELSE None

RECURSIVE TryFormats(_, _)
TryFormats(s, fmts) ==
    IF fmts = <<>> THEN None
    ELSE LET date_obj == strptime(s, Head(fmts)) IN
         IF date_obj # None THEN date_obj ELSE TryFormats(s, Tail(fmts))

\* The formats tried on the string as given, without strip().
parse_blog_date_unstripped(s) ==
    IF s = <<>> \/ s = <<"Unknown date">> \/ s = <<"Recent">>
    THEN None
    ELSE TryFormats(s, DateFormats)

parse_blog_date(s) ==
    IF s = <<>> \/ s = <<"Unknown date">> \/ s = <<"Recent">>
    THEN None
    ELSE TryFormats(strip(s), DateFormats)

\* a > b on ISO date strings.
DateGT(a, b) ==
    \/ a[1] > b[1]
    \/ a[1] = b[1] /\ a[2] > b[2]
    \/ a[1] = b[1] /\ a[2] = b[2] /\ a[3] > b[3]

\* ---- dicts keyed by source name ----
EmptyDict == [n \in {} |-> None]

DictGet(d, k) == IF k \in DOMAIN d THEN d[k] ELSE None

DictSet(d, k, v) == [n \in DOMAIN d \cup {k} |-> IF n = k THEN v ELSE d[n]]

\* ---- fetch results ----
\* Most posts fetched over all sources in one cycle of the model.
MaxFetched == 3

\* The date strings the listings of the model show: "November 20, 2025",
\* " Nov 18, 2025 ", "20 December 2024" and "Unknown date".
ListedDates == { <<"November", " ", "20", ",", " ", "2025">>,
                 <<" ", "Nov", " ", "18", ",", " ", "2025", " ">>,
                 <<"20", " ", "December", " ", "2024">>,
                 <<"Unknown date">> }

\* A post of fetch_blog_posts; its title stands for its place in the listing.
OncePost(name, i, date) == [title |-> i, date |-> date, source |-> name]

OnceFetchResults(name, n) ==
    {[i \in 1..Len(ds) |-> OncePost(name, i, ds[i])] : ds \in SeqsUpTo(ListedDates, n)}

\* ---- the loop body of main for one source ----
\* A post dated on the stored last-date taken as new (>= for >).
IsNewDateOrEqual(post_date, last_seen_date) ==
    last_seen_date = None \/ ~DateGT(last_seen_date, post_date)

\* "Check if this is a new post".
IsNewDate(post_date, last_seen_date) ==
    last_seen_date = None \/ DateGT(post_date, last_seen_date)

\* latest_date set to the date of every post that parses.
LaterDateLast(post_date, latest_date) == post_date

\* "Update latest date seen".
LaterDate(post_date, latest_date) ==
    IF latest_date = None \/ DateGT(post_date, latest_date) THEN post_date ELSE latest_date

\* latest_date started from nothing instead of the stored last-date.
StartDateNone(last_seen_date) == None

\* The value latest_date starts from.
StartDate(last_seen_date) == last_seen_date

\* A post whose date did not parse notified all the same.
SkipPostKept(acc, post) == Append(acc, post)

\* new_posts after a post whose date did not parse: the post is skipped.
SkipPost(acc, post) == acc

\* The loop over the posts of one source: new_posts and latest_date after it.
RECURSIVE ScanDates(_, _, _, _)
ScanDates(ps, last_seen_date, latest_date, acc) ==
    IF ps = <<>> THEN [new_posts |-> acc, latest_date |-> latest_date]
    ELSE LET post_date == parse_blog_date(Head(ps).date) IN
         IF post_date = None
         THEN ScanDates(Tail(ps), last_seen_date, latest_date, SkipPost(acc, Head(ps)))
         ELSE ScanDates(Tail(ps), last_seen_date, LaterDate(post_date, latest_date),
                        IF IsNewDate(post_date, last_seen_date)
                        THEN Append(acc, Head(ps)) ELSE acc)

\* One iteration of the loop over BLOG_SOURCES: skipped for an empty fetch,
\* else the new posts of the source and updated_dates after it.
ReconcileSource(source_name, ps, seen_dates, updated) ==
    IF ps = <<>> THEN [new_posts |-> <<>>, updated_dates |-> updated]
    ELSE LET last_seen_date == DictGet(seen_dates, source_name)
             sc == ScanDates(ps, last_seen_date, StartDate(last_seen_date), <<>>)
         IN  [new_posts |-> sc.new_posts,
              updated_dates |-> IF sc.latest_date # None
                                THEN DictSet(updated, source_name, sc.latest_date)
                                ELSE updated]

\* all_new_posts sent in the order it was collected.
OnceSendOrderForward(np) == np

\* The order in which all_new_posts is sent.
OnceSendOrder(np) == Reverse(np)

\* The state the next run reads after send_state_message(updated) was delivered.
StateAfterSave(old, updated) == updated

\* Where main goes after the loop over BLOG_SOURCES.
AfterLoop(np, ud) ==
    IF np # <<>> THEN "send" ELSE IF ud # EmptyDict THEN "state" ELSE "done"

FetchedCount == LET RECURSIVE Sum(_)
                    Sum(i) == IF i = 0 THEN 0 ELSE Len(fetched[BLOG_SOURCES[i]]) + Sum(i - 1)
                IN  Sum(Len(BLOG_SOURCES))

\* main up to the loop: get_last_state_from_messages, which yields {} when
\* getUpdates fails or holds no state message.
OnceLoad ==
    /\ script = "check_once.py"
    /\ opc \in {"idle", "done"}
    /\ \E got \in BOOLEAN : last_seen_dates' = IF got THEN tg_state ELSE EmptyDict
    /\ all_new_posts' = <<>>
    /\ updated_dates' = EmptyDict
    /\ fetched' = [n \in SourceNames |-> <<>>]
    /\ osends' = <<>>
    /\ ofailed' = FALSE
    /\ src_i' = 1
    /\ opc' = "loop"
    /\ UNCHANGED tg_state
    /\ UNCHANGED <<script, botVars, testVars, dateVars>>

\* One iteration of the loop over BLOG_SOURCES; a failed fetch is an empty one.
OnceSource ==
    /\ opc = "loop"
    /\ LET source_name == BLOG_SOURCES[src_i] IN
       \E ps \in OnceFetchResults(source_name, MaxFetched - FetchedCount) :
         LET r  == ReconcileSource(source_name, ps, last_seen_dates, updated_dates)
             np == all_new_posts \o r.new_posts
         IN  /\ fetched' = [fetched EXCEPT ![source_name] = ps]
             /\ all_new_posts' = np
             /\ updated_dates' = r.updated_dates
             /\ opc' = IF src_i < Len(BLOG_SOURCES) THEN "loop"
                       ELSE AfterLoop(np, r.updated_dates)
    /\ src_i' = src_i + 1
    /\ UNCHANGED <<tg_state, last_seen_dates, osends, ofailed>>
    /\ UNCHANGED <<script, botVars, testVars, dateVars>>

\* Where the send loop of main goes after send_telegram_message returned ok.
OnceAfterSend(ok, last, ud) ==
    IF ~last THEN "send" ELSE IF ud # EmptyDict THEN "state" ELSE "done"

\* One iteration of the send loop of main.
OnceSend ==
    /\ opc = "send"
    /\ \E ok \in BOOLEAN :
         /\ osends' = Append(osends, OnceSendOrder(all_new_posts)[Len(osends) + 1])
         /\ opc' = OnceAfterSend(ok, Len(osends) + 1 = Len(all_new_posts), updated_dates)
         /\ ofailed' = (ofailed \/ ~ok)
    /\ UNCHANGED <<tg_state, last_seen_dates, src_i, fetched, all_new_posts, updated_dates>>
    /\ UNCHANGED <<script, botVars, testVars, dateVars>>

\* send_state_message(updated_dates): delivered, or failed and logged.
OnceSaveState ==
    /\ opc = "state"
    /\ \E ok \in BOOLEAN :
         tg_state' = IF ok THEN StateAfterSave(tg_state, updated_dates) ELSE tg_state
    /\ opc' = "done"
    /\ UNCHANGED <<last_seen_dates, src_i, fetched, all_new_posts, updated_dates, osends,
                   ofailed>>
    /\ UNCHANGED <<script, botVars, testVars, dateVars>>

InitOnce ==
    /\ tg_state = EmptyDict
    /\ opc = "idle"
    /\ last_seen_dates = EmptyDict
    /\ src_i = 1
    /\ fetched = [n \in SourceNames |-> <<>>]
    /\ all_new_posts = <<>>
    /\ updated_dates = EmptyDict
    /\ osends = <<>>
    /\ ofailed = FALSE

(***************************************************************************)
(*                          tests/test_dedup.py                            *)
(***************************************************************************)

\* Longest list of posts the scan of the test is run on in the model.
MaxScan == 2

\* The URLs of the model: "", "a", "a/", "a//" and "b".
RawLinks == {<<>>, <<"a">>, <<"a", "/">>, <<"a", "/", "/">>, <<"b">>}

\* A post of the test.
TestPost(raw) == [link |-> normalize_url(raw)]

\* The loop of the test: the posts before the first one whose link is last.
RECURSIVE LastLinkScan(_, _, _)
LastLinkScan(ps, last, acc) ==
    IF ps = <<>> THEN acc
    ELSE IF Head(ps).link = last THEN acc
         ELSE LastLinkScan(Tail(ps), last, Append(acc, Head(ps)))

\* The loop with the matched post skipped and the scan going on.
ScanWithoutBreak(ps, last) ==
    LET RECURSIVE Keep(_)
        Keep(r) == IF r = <<>> THEN <<>>
                   ELSE IF Head(r).link = last THEN Keep(Tail(r))
                        ELSE <<Head(r)>> \o Keep(Tail(r))
    IN  Keep(ps)

\* new_posts of the test after its loop.
ScanNewPosts(ps, last) == LastLinkScan(ps, last, <<>>)

\* The test builds posts and last_seen from normalized URLs.
TestBuild ==
    /\ script = "test_dedup.py"
    /\ tpc = "start"
    /\ t_posts' = [i \in 1..Len(raw_links) |-> TestPost(raw_links[i])]
    /\ last_seen' = normalize_url(raw_last_seen)
    /\ tpc' = "built"
    /\ UNCHANGED <<raw_links, raw_last_seen, t_new_posts>>
    /\ UNCHANGED <<script, botVars, onceVars, dateVars>>

\* The scan loop of the test.
TestScan ==
    /\ tpc = "built"
    /\ t_new_posts' = ScanNewPosts(t_posts, last_seen)
    /\ tpc' = "scanned"
    /\ UNCHANGED <<raw_links, raw_last_seen, t_posts, last_seen>>
    /\ UNCHANGED <<script, botVars, onceVars, dateVars>>

InitTest ==
    /\ raw_links \in (IF script = "test_dedup.py" THEN SeqsUpTo(RawLinks, MaxScan)
                      ELSE {<<>>})
    /\ raw_last_seen \in (IF script = "test_dedup.py" THEN RawLinks ELSE {<<>>})
    /\ tpc = "start"
    /\ t_posts = <<>>
    /\ last_seen = <<>>
    /\ t_new_posts = <<>>

(***************************************************************************)
(*                      a call of parse_blog_date                          *)
(***************************************************************************)

\* The ways a date is written in the model: in one of the five formats
\* (fmt 1..5) with a month, a day and a year, with whitespace before or after
\* it or not; or another text (fmt 0).
DatedCases ==
    [fmt : 1..5, month : {"May", "November", "December"}, day : {"5", "05", "18", "31"},
     year : FourDigits, before : BOOLEAN, after : BOOLEAN, text : {<<>>}]

OtherTexts ==
    { <<>>, <<"Unknown date">>, <<"Recent">>, <<"garbage">>, <<" ">>,
      <<" ", "Recent">>,
      <<"Nov", " ", "18", " ", "2025">>,
      <<"November", " ", "2025">>,
      <<"2025", "-", "31", "-", "05">>,
      <<"18", ",", " ", "Nov", " ", "2025">>,
      <<"2025", "-", "11", "-", "18", " ", "garbage">> }

OtherCases ==
    [fmt : {0}, month : {"May"}, day : {"5"}, year : {"2025"}, before : {FALSE},
     after : {FALSE}, text : OtherTexts]

ShortName(month) ==
    CASE month = "May" -> "May" [] month = "November" -> "Nov" [] month = "December" -> "Dec"

MonthDigits(month) ==
    CASE month = "May" -> "05" [] month = "November" -> "11" [] month = "December" -> "12"

\* The string of a case.
Written(c) ==
    LET body == CASE c.fmt = 0 -> c.text
                  [] c.fmt = 1 -> <<c.month, " ", c.day, ",", " ", c.year>>
                  [] c.fmt = 2 -> <<ShortName(c.month), " ", c.day, ",", " ", c.year>>
                  [] c.fmt = 3 -> <<c.year, "-", MonthDigits(c.month), "-", c.day>>
                  [] c.fmt = 4 -> <<c.day, " ", c.month, " ", c.year>>
                  [] c.fmt = 5 -> <<c.day, " ", ShortName(c.month), " ", c.year>>
    IN  (IF c.before THEN <<" ">> ELSE <<>>) \o body \o (IF c.after THEN <<" ">> ELSE <<>>)

\* The string strftime('%Y-%m-%d') writes for a date: the date and the number
\* of digits of its year.  The C library writes a year below 1000 padded to
\* four digits (pads) or as it is.
strftime_iso(date_obj, pads) ==
    IF date_obj = None THEN [date |-> None, year_digits |-> 0]
    ELSE [date |-> date_obj,
          year_digits |-> IF date_obj[1] >= 1000 \/ pads THEN 4 ELSE 3]

\* parse_blog_date(date_str) is called and returns.
ParseCall ==
    /\ script = "parse_blog_date"
    /\ dpc = "start"
    /\ \E pads \in BOOLEAN : date_ret' = strftime_iso(parse_blog_date(date_str), pads)
    /\ dpc' = "returned"
    /\ UNCHANGED <<date_case, date_str>>
    /\ UNCHANGED <<script, botVars, onceVars, testVars>>

InitDate ==
    /\ date_case \in (IF script = "parse_blog_date" THEN DatedCases \cup OtherCases
                      ELSE {CHOOSE c \in OtherCases : c.text = <<>>})
    /\ date_str = Written(date_case)
    /\ dpc = "start"
    /\ date_ret = strftime_iso(None, TRUE)

Init ==
    /\ script \in {"bot.py", "bot.py x2", "check_once.py", "test_dedup.py", "parse_blog_date"}
    /\ InitBot
    /\ InitOnce
    /\ InitTest
    /\ InitDate

Next ==
    \/ CheckStart
    \/ SendNotification
    \/ OpenStateFile
    \/ DumpState
    \/ Switch
    \/ OnceLoad
    \/ OnceSource
    \/ OnceSend
    \/ OnceSaveState
    \/ TestBuild
    \/ TestScan
    \/ ParseCall

Spec == Init /\ [][Next]_vars

(***************************************************************************)
(*                              Properties                                 *)
(***************************************************************************)

\* Days in chronological order: the number grows with the calendar day.
DayNumber(d) == (d[1] * 12 + d[2]) * 31 + d[3]

Earliest(a, b) == IF DayNumber(a) <= DayNumber(b) THEN a ELSE b

MaxDate(S) == CHOOSE d \in S : \A e \in S : DayNumber(e) <= DayNumber(d)

\* The ISO date, or None, of every date string the listings show.
ListedDate == [d \in ListedDates |-> parse_blog_date(d)]

\* The dates of the posts of ps that parse.
ParsedDates(ps) == {ListedDate[ps[i].date] : i \in 1..Len(ps)} \ {None}

\* The stored last-date of source n as a set: empty when none is stored.
StoredDates(n) == {DictGet(last_seen_dates, n)} \ {None}

\* The seen-set as the set of canonical links it stands for.
CanonicalSeen(seen) == {normalize_url(l) : l \in seen}

\* C1: in a cycle of bot.py with a non-empty fetch, a post is in new_posts if
\* and only if its canonical link (one trailing "/" stripped) was absent from
\* the seen-set loaded at the start of the cycle.
C1_NewIffCanonicalLinkAbsent ==
    (script = "bot.py" /\ pc \in {"send", "save"}) =>
        \A i \in 1..Len(posts) :
            (posts[i] \in Range(new_posts))
                <=> (normalize_url(posts[i].link) \notin CanonicalSeen(state.seen_posts))

\* C2: in a cycle of check_once.py a fetched post of a source is in the new
\* posts if and only if its date parses and either the source has no stored
\* last-date or the parsed day is strictly after the stored one; a post dated
\* on the stored day is not new.
C2_NewIffDateAfterStored ==
    \A n \in SourceNames : \A i \in 1..Len(fetched[n]) :
        LET post_date == ListedDate[fetched[n][i].date]
            stored    == DictGet(last_seen_dates, n)
        IN  (fetched[n][i] \in Range(all_new_posts))
                <=> (/\ post_date # None
                     /\ (stored = None \/ DayNumber(post_date) > DayNumber(stored)))

\* A finished cycle that fetched a post dated on the stored last-date of its
\* source, beside a later one that is new.
C2_Witness ==
    /\ opc = "done"
    /\ \E n \in SourceNames : \E i, j \in 1..Len(fetched[n]) :
         /\ ListedDate[fetched[n][i].date] = DictGet(last_seen_dates, n)
         /\ fetched[n][i] \notin Range(all_new_posts)
         /\ fetched[n][j] \in Range(all_new_posts)

\* C3 as stated: after a source with at least one parseable post was
\* reconciled, its updated date is the latest parsed date of the posts fetched
\* in this cycle, whatever last-date is stored.
C3_UpdatedIsMaxFetched ==
    \A n \in SourceNames :
        ParsedDates(fetched[n]) # {} =>
            /\ n \in DOMAIN updated_dates
            /\ updated_dates[n] = MaxDate(ParsedDates(fetched[n]))

\* C3 amended: the updated date is the latest of the stored last-date (when
\* there is one) and the parsed dates of the posts fetched in this cycle.
C3_UpdatedIsMaxOfStoredAndFetched ==
    \A n \in SourceNames :
        ParsedDates(fetched[n]) # {} =>
            /\ n \in DOMAIN updated_dates
            /\ updated_dates[n] = MaxDate(ParsedDates(fetched[n]) \cup StoredDates(n))

\* A finished cycle in which a source's stored last-date is after every
\* parseable post fetched, and is kept as the updated date.
C3_Witness ==
    /\ opc = "done"
    /\ \E n \in SourceNames :
         /\ ParsedDates(fetched[n]) # {}
         /\ n \in DOMAIN last_seen_dates
         /\ \A d \in ParsedDates(fetched[n]) : DayNumber(d) < DayNumber(last_seen_dates[n])
         /\ updated_dates[n] = last_seen_dates[n]

\* C4: when a source with a stored last-date fetches nothing in a cycle in
\* which another source produces an updated date, the persisted state still
\* holds the source's last-date after the cycle.
C4_UntouchedSourceKeepsDate ==
    opc = "done" =>
        \A n \in SourceNames :
            (/\ n \in DOMAIN last_seen_dates
             /\ fetched[n] = <<>>
             /\ \E m \in SourceNames \ {n} : m \in DOMAIN updated_dates)
            => (n \in DOMAIN tg_state /\ tg_state[n] = last_seen_dates[n])

\* Place of a source in BLOG_SOURCES.
SourceIndex(name) == CHOOSE i \in 1..Len(BLOG_SOURCES) : BLOG_SOURCES[i] = name

\* C5 as stated: the sends of a cycle of check_once.py go source by source in
\* declaration order, and within a source in the reverse of its fetch order.
C5_SendsInDeclarationOrder ==
    \A i, j \in 1..Len(osends) :
        i < j =>
            /\ SourceIndex(osends[i].source) <= SourceIndex(osends[j].source)
            /\ osends[i].source = osends[j].source => osends[i].title > osends[j].title

\* C5 amended: the sends go source by source in the reverse of the
\* declaration order (every new post of a later declared source before any of
\* an earlier declared one), and within a source in the reverse of its fetch
\* order.
C5_SendsInReverseDeclarationOrder ==
    /\ \A i, j \in 1..Len(osends) :
        i < j =>
            /\ SourceIndex(osends[i].source) >= SourceIndex(osends[j].source)
            /\ osends[i].source = osends[j].source => osends[i].title > osends[j].title
    /\ opc \in {"state", "done"} => Range(osends) = Range(all_new_posts)

\* A finished cycle that sent new posts of both sources, two of them of one
\* source.
C5_Witness ==
    /\ opc = "done"
    /\ Len(osends) = 3
    /\ {osends[i].source : i \in 1..Len(osends)} = SourceNames

\* C6: load_state never raises out of check_for_new_posts: a call that finds
\* the state file missing, not valid JSON or not a JSON object goes on with the
\* empty state.
C6_LoadNeverRaises ==
    script = "bot.py" => state.raised = "none"

\* The posts of ps whose date parses.
RECURSIVE Parseable(_)
Parseable(ps) ==
    IF ps = <<>> THEN <<>>
    ELSE IF ListedDate[Head(ps).date] = None THEN Parseable(Tail(ps))
         ELSE <<Head(ps)>> \o Parseable(Tail(ps))

\* The new posts of source n in all_new_posts, in order.
RECURSIVE OfSource(_, _)
OfSource(ps, n) ==
    IF ps = <<>> THEN <<>>
    ELSE IF Head(ps).source = n THEN <<Head(ps)>> \o OfSource(Tail(ps), n)
         ELSE OfSource(Tail(ps), n)

\* What the loop body yields for source n on the fetch result ps.
Reconciled(n, ps) == ReconcileSource(n, ps, last_seen_dates, EmptyDict)

\* C7 as stated: the new posts and the updated date of a source are those of
\* its fetch result with the posts of unparsable date removed.
C7_SameAsWithoutUnparsable ==
    \A n \in SourceNames :
        LET r == Reconciled(n, Parseable(fetched[n])) IN
        /\ OfSource(all_new_posts, n) = r.new_posts
        /\ DictGet(updated_dates, n) = DictGet(r.updated_dates, n)

\* C7 amended: the new posts of a source are those of its fetch result with
\* the posts of unparsable date removed, and so is the updated date when some
\* post of the fetch has a parseable date; for a non-empty fetch without one
\* the updated date is the stored last-date, where an empty fetch records none.
C7_UnparsableCountsForNothing ==
    \A n \in SourceNames :
        LET r == Reconciled(n, Parseable(fetched[n])) IN
        /\ OfSource(all_new_posts, n) = r.new_posts
        /\ fetched[n] # <<>> =>
             DictGet(updated_dates, n) =
                 IF Parseable(fetched[n]) # <<>> THEN DictGet(r.updated_dates, n)
                 ELSE DictGet(last_seen_dates, n)

\* A finished cycle in which one source fetched a new post beside a post of
\* unparsable date, and another fetched only a post of unparsable date while a
\* last-date is stored for it.
C7_Witness ==
    /\ opc = "done"
    /\ \E n \in SourceNames :
         /\ Len(Parseable(fetched[n])) < Len(fetched[n])
         /\ OfSource(all_new_posts, n) # <<>>
    /\ \E n \in SourceNames :
         /\ fetched[n] # <<>>
         /\ Parseable(fetched[n]) = <<>>
         /\ n \in DOMAIN last_seen_dates

\* C8: a cycle of bot.py that fetches what the cycle just before fetched,
\* which saved its state, finds no new post and sends nothing.
C8_SecondRunFindsNothing ==
    (/\ script = "bot.py"
     /\ pc \in {"send", "save"}
     /\ prev_posts # <<>>
     /\ posts = prev_posts)
    => (new_posts = <<>> /\ sends = <<>>)

\* The second of two cycles with the same fetch of two posts, before its save.
C8_Witness ==
    /\ script = "bot.py"
    /\ pc = "save"
    /\ Len(posts) = 2
    /\ posts = prev_posts
    /\ new_posts = <<>>

\* Place of the first post of ps equal to p.
FirstIndex(ps, p) == CHOOSE i \in 1..Len(ps) : ps[i] = p /\ \A k \in 1..(i - 1) : ps[k] # p

\* C9: within one source the new posts are sent in the reverse of their order
\* in the fetch result, in bot.py and in check_once.py, and each of them is
\* sent once.
C9_SentInReverseFetchOrder ==
    /\ \A i, j \in 1..Len(sends) :
         i < j => FirstIndex(posts, sends[i]) > FirstIndex(posts, sends[j])
    /\ pc = "save" => (Range(sends) = Range(new_posts) /\ Len(sends) = Len(new_posts))
    /\ \A i, j \in 1..Len(osends) :
         (i < j /\ osends[i].source = osends[j].source)
         => FirstIndex(fetched[osends[i].source], osends[i])
                > FirstIndex(fetched[osends[j].source], osends[j])
    /\ opc \in {"state", "done"}
         => (Range(osends) = Range(all_new_posts) /\ Len(osends) = Len(all_new_posts))

\* A cycle of check_once.py that sent three new posts of one source.
C9_Witness ==
    /\ opc \in {"state", "done"}
    /\ Len(osends) = 3
    /\ \A i \in 1..Len(osends) : osends[i].source = osends[1].source

\* C10: a cycle in which a source fetches nothing sends no notification for
\* it, raises nothing and leaves the persisted state as it was; bot.py does not
\* write the state file, and check_once.py still reconciles and notifies the
\* other sources.
C10_EmptyFetchChangesNothing ==
    /\ (script = "bot.py" /\ result = "no_posts")
         => (pc = "idle" /\ sends = <<>> /\ load_state(state_file) = state)
    /\ opc = "done" =>
         \A n \in SourceNames :
             fetched[n] = <<>> =>
                 /\ \A i \in 1..Len(osends) : osends[i].source # n
                 /\ n \in DOMAIN last_seen_dates
                      => (n \in DOMAIN tg_state /\ tg_state[n] = last_seen_dates[n])
                 /\ \A m \in SourceNames \ {n} :
                      /\ OfSource(all_new_posts, m) = Reconciled(m, fetched[m]).new_posts
                      /\ \A i \in 1..Len(all_new_posts) :
                           all_new_posts[i] \in Range(osends)

\* The links of the posts of ps.
LinksOf(ps) == {ps[i].link : i \in 1..Len(ps)}

\* How often p occurs in the sequence s.
Count(s, p) == Cardinality({i \in 1..Len(s) : s[i] = p})

\* updated_dates after the loop over the first k sources, from the fetch
\* results and the loaded state alone.
RECURSIVE UpdatedAfter(_)
UpdatedAfter(k) ==
    IF k = 0 THEN EmptyDict
    ELSE ReconcileSource(BLOG_SOURCES[k], fetched[BLOG_SOURCES[k]], last_seen_dates,
                         UpdatedAfter(k - 1)).updated_dates

\* C11: whatever sends fail, every new post of a cycle gets exactly one send
\* attempt, and the state saved is the one saved when every send succeeds: in
\* bot.py the loaded seen-set with the links of all fetched posts, in
\* check_once.py the dates computed from the fetch results.
C11_FailedSendChangesNothing ==
    /\ (script = "bot.py" /\ pc = "save")
         => \A i \in 1..Len(new_posts) : Count(sends, new_posts[i]) = 1
    /\ (script = "bot.py" /\ result = "returned")
         => /\ \A i \in 1..Len(new_posts) : Count(sends, new_posts[i]) = 1
            /\ state_file = FileObject(state.seen_posts \cup LinksOf(posts))
    /\ opc \in {"state", "done"}
         => /\ \A i \in 1..Len(all_new_posts) : Count(osends, all_new_posts[i]) = 1
            /\ updated_dates = UpdatedAfter(Len(BLOG_SOURCES))

\* A cycle of bot.py that found two new posts, had a send fail and saved.
C11_Witness ==
    /\ script = "bot.py"
    /\ result = "returned"
    /\ failed
    /\ Len(new_posts) = 2
    /\ Len(sends) = 2

\* Place of the first URL of the test whose normalized form is that of the
\* stored last-link; one past the end when there is none.
FirstMatch ==
    LET hits == {i \in 1..Len(raw_links) :
                    normalize_url(raw_links[i]) = normalize_url(raw_last_seen)}
    IN  IF hits = {} THEN Len(raw_links) + 1
        ELSE CHOOSE i \in hits : \A k \in hits : i <= k

\* C12: the scan of a newest-first list takes as new exactly the posts before
\* the first post whose normalized link equals the stored last-link; the
\* matched post and all later ones are not new, and nothing is new when the
\* newest post is the match.
C12_NewAreThoseBeforeFirstMatch ==
    tpc = "scanned" =>
        /\ t_new_posts = SubSeq(t_posts, 1, FirstMatch - 1)
        /\ (t_posts # <<>> /\ t_posts[1].link = last_seen) => t_new_posts = <<>>

\* A scan of two posts of which the second is the stored last-link.
C12_Witness ==
    /\ tpc = "scanned"
    /\ Len(t_posts) = 2
    /\ t_posts[1].link # last_seen
    /\ t_posts[2].link = last_seen
    /\ t_new_posts = <<t_posts[1]>>

\* Whether raw ends in two or more "/".
EndsInSlashes(raw) ==
    Len(raw) >= 2 /\ raw[Len(raw)] = "/" /\ raw[Len(raw) - 1] = "/"

\* C13 as stated: normalizing a normalized URL changes nothing, for every
\* URL, the empty one and those ending in several "/" included.
C13_NormalizeIdempotent ==
    tpc # "start" =>
        /\ \A i \in 1..Len(t_posts) : normalize_url(t_posts[i].link) = t_posts[i].link
        /\ normalize_url(last_seen) = last_seen

\* C13 amended: normalizing a normalized URL changes nothing for every URL
\* that ends in at most one "/", the empty one included.
C13_NormalizeIdempotentUpToOneSlash ==
    tpc # "start" =>
        /\ \A i \in 1..Len(t_posts) :
             ~EndsInSlashes(raw_links[i]) => normalize_url(t_posts[i].link) = t_posts[i].link
        /\ ~EndsInSlashes(raw_last_seen) => normalize_url(last_seen) = last_seen

\* Posts built from the empty URL and from "a/", with last_seen built from "a/".
C13_Witness ==
    /\ tpc = "built"
    /\ raw_links = << <<>>, <<"a", "/">> >>
    /\ raw_last_seen = <<"a", "/">>
    /\ last_seen = <<"a">>

\* C14: a URL and the same URL with one "/" appended normalize to the same
\* link, so bot.py takes a post whose link differs from a seen link only by a
\* trailing "/" as seen and does not notify it again.
C14_TrailingSlashIsSamePost ==
    /\ \A l \in Links : l[Len(l)] # "/" => normalize_url(Append(l, "/")) = normalize_url(l)
    /\ (script = "bot.py" /\ pc \in {"send", "save"}) =>
         \A i \in 1..Len(posts) :
            (\E l \in state.seen_posts : normalize_url(l) = normalize_url(posts[i].link))
                => posts[i] \notin Range(new_posts)

\* The calendar day a dated case names, or None when there is no such day.
NamedDay(c) ==
    LET y == CASE c.year = "0999" -> 999 [] c.year = "2024" -> 2024 [] c.year = "2025" -> 2025
        m == CASE c.month = "May" -> 5 [] c.month = "November" -> 11
               [] c.month = "December" -> 12
        d == CASE c.day \in {"5", "05"} -> 5 [] c.day = "18" -> 18 [] c.day = "31" -> 31
    IN  IF m = 11 /\ d = 31 THEN None ELSE <<y, m, d>>

\* C15: parse_blog_date returns for every string: None for "Unknown date",
\* "Recent", the empty string and every string that, whitespace trimmed, is in
\* none of the five formats; else the ISO YYYY-MM-DD date, its year written
\* with four digits, of the day the string names.
C15_ParseBlogDate ==
    dpc = "returned" =>
        IF date_case.fmt = 0 \/ NamedDay(date_case) = None
        THEN date_ret.date = None
        ELSE date_ret = [date |-> NamedDay(date_case), year_digits |-> 4]

C17_FailedSaveKeepsOldState ==
    [][/\ (script = "bot.py" /\ pc \in {"save", "dump"})
            => /\ result' # "raised"
               /\ pc' = "idle" => load_state(state_file') \in
                                    {state, load_state(SavedState(state, seen_posts))}
       /\ opc = "state"
            => /\ opc' = "done"
               /\ tg_state' \in {tg_state, StateAfterSave(tg_state, updated_dates)}]_vars

\* C18: while bot.py runs its cycles one after another and no save_state has
\* raised, no link has been handed to send_telegram_message more than once.
C18_OneSendPerLink ==
    (script = "bot.py" /\ ~save_failed) => \A l \in Links : attempts[l] <= 1

\* A link sent in an earlier cycle, absent from the fetch of the cycle before
\* this one, is fetched again, twice in one fetch result, and is not sent.
C18_Witness ==
    /\ script = "bot.py"
    /\ ~save_failed
    /\ pc = "save"
    /\ prev_posts # <<>>
    /\ \E l \in Links :
         /\ posts = <<Post(l), Post(l)>>
         /\ l \notin LinksOf(prev_posts)
         /\ attempts[l] = 1
         /\ sends = <<>>

\* The date computed for each source with a loaded last-date is not earlier
\* than the loaded one.
ComputedNotEarlier ==
    \A n \in DOMAIN updated_dates \cap DOMAIN last_seen_dates :
        DayNumber(updated_dates[n]) >= DayNumber(last_seen_dates[n])

\* The step of a cycle in which only "Helm" fetched posts keeps a stored
\* last-date of "Helm" or replaces it by a later one.
HelmDateKept ==
    "Helm" \in DOMAIN tg_state =>
        /\ "Helm" \in DOMAIN tg_state'
        /\ DayNumber(tg_state'["Helm"]) >= DayNumber(tg_state["Helm"])

\* C19: the last-date computed for a source is never earlier than the one
\* loaded for it, and with a single source the stored last-date never
\* decreases, whether or not the state message is delivered.
C19_StoredDateNeverDecreases ==
    [][/\ ComputedNotEarlier'
       /\ (opc = "state" /\ fetched["Other"] = <<>>) => HelmDateKept]_vars

\* C19 as the code has it: the last-date computed for a source is never
\* earlier than the one loaded for it, and with a single source the stored
\* last-date never decreases in a cycle whose load returned the stored state.
C19_StoredDateNeverDecreasesOnceLoaded ==
    [][/\ ComputedNotEarlier'
       /\ (opc = "state" /\ fetched["Other"] = <<>> /\ last_seen_dates = tg_state)
            => HelmDateKept]_vars

\* A finished single-source cycle that loaded the stored date, fetched only
\* earlier posts and left the stored date as it was.
C19_Witness ==
    /\ opc = "done"
    /\ fetched["Other"] = <<>>
    /\ "Helm" \in DOMAIN last_seen_dates
    /\ ParsedDates(fetched["Helm"]) # {}
    /\ \A d \in ParsedDates(fetched["Helm"]) :
         DayNumber(d) < DayNumber(last_seen_dates["Helm"])
    /\ tg_state = last_seen_dates
    /\ tg_state = updated_dates

\* "bot.py x2": the place of an event in the order of events, 0 when absent.
EventIndex(p, op) ==
    IF \E i \in 1..Len(events) : events[i] = <<p, op>>
    THEN CHOOSE i \in 1..Len(events) : events[i] = <<p, op>>
    ELSE 0

\* The seen-set process p hands to save_state.
SeenOf(p) == IF p = who THEN seen_posts ELSE other.seen_posts

\* Both processes saved, and both loaded before either began its save.
BothLoadedThenSaved ==
    /\ script = "bot.py x2"
    /\ result = "returned"
    /\ other.result = "returned"
    /\ \A p, q \in {1, 2} : EventIndex(p, "load") < EventIndex(q, "open")

\* The process whose save ended last.
LaterWriter == IF EventIndex(1, "dump") > EventIndex(2, "dump") THEN 1 ELSE 2

\* C20: after two concurrent cycles of bot.py that both loaded before either
\* saved, the state file holds exactly the seen-set written by the later save,
\* and no link that only the earlier writer recorded.
C20_LastWriterWins ==
    BothLoadedThenSaved =>
        /\ state_file = FileObject(SeenOf(LaterWriter))
        /\ state_file.seen_posts \cap (SeenOf(3 - LaterWriter) \ SeenOf(LaterWriter)) = {}

\* The same for two saves of which one ended before the other began.
LastWriterWinsWhenSavesDoNotOverlap ==
    (BothLoadedThenSaved
       /\ EventIndex(3 - LaterWriter, "dump") < EventIndex(LaterWriter, "open"))
    => /\ state_file = FileObject(SeenOf(LaterWriter))
       /\ state_file.seen_posts \cap (SeenOf(3 - LaterWriter) \ SeenOf(LaterWriter)) = {}

====
